---- MODULE Spec2Model ----
(***************************************************************************)
(* A model of gov-news-notion-bot: the date-text extractor and normalizer, *)
(* the page adapter, the orchestrator loop of main() and the upsert        *)
(* against the Notion database.                                            *)
(*                                                                         *)
(* Text.  A Python str is a sequence of characters, each a string.  The    *)
(* CJK characters the source matches on are named by their readings, since *)
(* a module holds ASCII only:                                              *)
(*    "nen" = 年   "gatsu" = 月   "nichi" = 日   "rei" = 令   "wa" = 和     *)
(* Python's None is the value None below, which is no text of the model.   *)
(***************************************************************************)
EXTENDS Integers, Sequences, FiniteSets, TLC

VARIABLES
    \* ---- date functions (normalize_date_text, extract_date_text)
    dpc,        \* "input" | "normalized" | "extracted"
    text,       \* the str passed in
    base,       \* base_dt: [year, month]
    dres,       \* the value returned
    \* ---- upsert_page against the database
    store,      \* the pages of the database, in creation order
    calls,      \* the upsert_page calls made so far: <<[args, res]>>
    \* ---- fetch_html_items
    hpc,        \* "loop" | "returned"
    hurl,       \* url
    hlimit,     \* limit
    hbudget,    \* detail_date_budget
    hmeta,      \* the listing page's <meta> date content, or None
    items,      \* items
    seen,       \* seen
    detail_used,\* detail_used
    hlog,       \* [requests, last]: the detail requests made so far, and what
                \* happened to the anchor visited last
    \* ---- main
    pc,         \* "start" | "select" | "fallback" | "items" | "done" | "aborted"
    env,        \* [token, dbid, sources] as main finds them
    now,        \* datetime.now(JST): [year, month, day, hour, minute]
    win,        \* [start, end]: yesterday_0 and today_0, as instants
    si,         \* index of the current source
    cur,        \* how many items of the current source are still to process
    created, updated, skipped_time, skipped_nodate, errors,
    trace       \* what main has done so far (see InitMain)

dateVars  == <<dpc, text, base, dres>>
storeVars == <<store, calls>>
htmlVars  == <<hpc, hurl, hlimit, hbudget, hmeta, items, seen, detail_used, hlog>>
mainVars  == <<pc, env, now, win, si, cur, created, updated, skipped_time,
               skipped_nodate, errors, trace>>
vars      == <<dateVars, storeVars, htmlVars, mainVars>>

None == <<"None">>

(***************************************************************************)
(* Strings                                                                 *)
(***************************************************************************)
Digit == {"0", "1", "2", "3", "4", "5", "6", "7", "8", "9"}
Space == {" "}

DigitVal(c) ==
    CASE c = "0" -> 0 [] c = "1" -> 1 [] c = "2" -> 2 [] c = "3" -> 3
      [] c = "4" -> 4 [] c = "5" -> 5 [] c = "6" -> 6 [] c = "7" -> 7
      [] c = "8" -> 8 [] c = "9" -> 9

DigitChar(n) ==
    CASE n = 0 -> "0" [] n = 1 -> "1" [] n = 2 -> "2" [] n = 3 -> "3"
      [] n = 4 -> "4" [] n = 5 -> "5" [] n = 6 -> "6" [] n = 7 -> "7"
      [] n = 8 -> "8" [] n = 9 -> "9"

RECURSIVE ToInt(_)
\* int(s) of a string of decimal digits
ToInt(s) ==
    IF s = <<>> THEN 0
    ELSE 10 * ToInt(SubSeq(s, 1, Len(s) - 1)) + DigitVal(s[Len(s)])

RECURSIVE IntToStr(_)
\* format(n, "d") of n >= 0
IntToStr(n) ==
    IF n < 10 THEN <<DigitChar(n)>>
    ELSE IntToStr(n \div 10) \o <<DigitChar(n % 10)>>

\* format(n, "02d")
Pad2(n) == IF n < 10 THEN <<"0">> \o IntToStr(n) ELSE IntToStr(n)

RECURSIVE LStrip(_)
LStrip(s) == IF s # <<>> /\ s[1] \in Space THEN LStrip(Tail(s)) ELSE s

RECURSIVE RStrip(_)
RStrip(s) ==
    IF s # <<>> /\ s[Len(s)] \in Space THEN RStrip(SubSeq(s, 1, Len(s) - 1)) ELSE s

\* str.strip()
Strip(s) == LStrip(RStrip(s))

\* Python truthiness of an optional str
Falsy(s) == s = None \/ s = <<>>

Min(a, b) == IF a < b THEN a ELSE b

(***************************************************************************)
(* Regular expressions: a pattern is a sequence of elements                *)
(* [cls, lo, hi] (a character class repeated lo..hi times, greedily), with *)
(* the groups given as element ranges.  re.search is the leftmost match,   *)
(* the repetitions taken longest-first with backtracking.                  *)
(***************************************************************************)
\* cls{lo,hi}
E(cls, lo, hi) == [cls |-> cls, lo |-> lo, hi |-> hi, star |-> FALSE]

\* cls*
Star(cls) == [cls |-> cls, lo |-> 0, hi |-> 0, star |-> TRUE]

AllIn(s, from, n, cls) == \A i \in from .. (from + n - 1) : s[i] \in cls

RECURSIVE MatchAt(_, _, _, _)
RECURSIVE TryReps(_, _, _, _, _)
\* The element boundaries <<p_k, ..., p_end>> of the preferred match of
\* pat[k..] at position pos of s, or << >> when there is none.
MatchAt(pat, k, s, pos) ==
    IF k > Len(pat) THEN <<pos>>
    ELSE TryReps(pat, k, s, pos,
                 IF pat[k].star THEN Len(s) - pos + 1
                 ELSE Min(pat[k].hi, Len(s) - pos + 1))

TryReps(pat, k, s, pos, n) ==
    IF n < pat[k].lo THEN <<>>
    ELSE IF AllIn(s, pos, n, pat[k].cls)
         THEN LET rest == MatchAt(pat, k + 1, s, pos + n)
              IN  IF rest # <<>> THEN <<pos>> \o rest
                  ELSE TryReps(pat, k, s, pos, n - 1)
         ELSE TryReps(pat, k, s, pos, n - 1)

RECURSIVE SearchFrom(_, _, _)
SearchFrom(pat, s, i) ==
    IF i > Len(s) + 1 THEN <<>>
    ELSE LET m == MatchAt(pat, 1, s, i)
         IN  IF m # <<>> THEN m ELSE SearchFrom(pat, s, i + 1)

\* pat.search(s): the boundaries of the match, or << >> for None
Search(pat, s) == SearchFrom(pat, s, 1)

\* the text of elements a..b of a match m of s
Group(s, m, a, b) == SubSeq(s, m[a], m[b + 1] - 1)

\* m.group(0)
Whole(s, m) == SubSeq(s, m[1], m[Len(m)] - 1)

(***************************************************************************)
(* main.py: DATE_PATTERNS, extract_date_text                               *)
(***************************************************************************)
D12 == E(Digit, 1, 2)
D4  == E(Digit, 4, 4)
Lit(c) == E({c}, 1, 1)
Sep == E({"/", "-"}, 1, 1)

PAT_ISO    == <<D4, Sep, D12, Sep, D12>>
PAT_GREG   == <<D4, Lit("nen"), D12, Lit("gatsu"), D12, Lit("nichi")>>
PAT_ERA    == <<Lit("rei"), Lit("wa"), D12, Lit("nen"), D12, Lit("gatsu"), D12, Lit("nichi")>>
PAT_MD     == <<D12, Lit("gatsu"), D12, Lit("nichi")>>
PAT_SHORT  == <<D12, Sep, D12>>

\* (mutant) the era pattern tried before the Gregorian long form
DATE_PATTERNS_era_first == <<PAT_ISO, PAT_ERA, PAT_GREG, PAT_MD, PAT_SHORT>>

DATE_PATTERNS == <<PAT_ISO, PAT_GREG, PAT_ERA, PAT_MD, PAT_SHORT>>

RECURSIVE ExtractFrom(_, _, _)
ExtractFrom(pats, s, k) ==
    IF k > Len(pats) THEN None
    ELSE LET m == Search(pats[k], s)
         IN  IF m # <<>> THEN Whole(s, m) ELSE ExtractFrom(pats, s, k + 1)

extract_date_text(s) ==
    IF Falsy(s) THEN None ELSE ExtractFrom(DATE_PATTERNS, s, 1)

(***************************************************************************)
(* main.py: normalize_date_text                                            *)
(***************************************************************************)
WS == Star(Space)

NORM_ERA   == <<Lit("rei"), Lit("wa"), D12, Lit("nen"), WS, D12, Lit("gatsu"), WS, D12, Lit("nichi")>>
NORM_GREG  == <<D4, Lit("nen"), WS, D12, Lit("gatsu"), WS, D12, Lit("nichi")>>
NORM_ISO   == <<D4, Sep, D12, Sep, D12>>
NORM_MD    == <<D12, Lit("gatsu"), WS, D12, Lit("nichi")>>
NORM_SHORT == <<D12, Sep, D12>>

\* f"{year}-{month:02d}-{day:02d}"
FormatYMD(year, month, day) ==
    IntToStr(year) \o <<"-">> \o Pad2(month) \o <<"-">> \o Pad2(day)

\* (mutant) the tie of month and reference month rolls over too
RolloverYear_tie(month, b) == IF month >= b.month THEN b.year - 1 ELSE b.year

\* the year given to a date without one
RolloverYear(month, b) == IF month > b.month THEN b.year - 1 ELSE b.year

normalize_date_text(s, b) ==
    IF Falsy(s) THEN <<>>
    ELSE
    LET t  == Strip(s)
        me == Search(NORM_ERA, t)
        mg == Search(NORM_GREG, t)
        mi == Search(NORM_ISO, t)
        mk == Search(NORM_MD, t)
        ms == Search(NORM_SHORT, t)
        G(m, k) == ToInt(Group(t, m, k, k))
    IN  IF me # <<>> THEN FormatYMD(2018 + G(me, 3), G(me, 6), G(me, 9))
        ELSE IF mg # <<>> THEN FormatYMD(G(mg, 1), G(mg, 4), G(mg, 7))
        ELSE IF mi # <<>> THEN FormatYMD(G(mi, 1), G(mi, 3), G(mi, 5))
        ELSE IF mk # <<>>
             THEN FormatYMD(RolloverYear(G(mk, 1), b), G(mk, 1), G(mk, 4))
        ELSE IF ms # <<>>
             THEN FormatYMD(RolloverYear(G(ms, 1), b), G(ms, 1), G(ms, 3))
        ELSE t

(***************************************************************************)
(* Inputs of the date functions                                            *)
(***************************************************************************)
MaxFrags == 3

\* the idle values of the variables a specification does not use
DateIdle ==
    /\ dpc = "idle" /\ text = <<>> /\ base = [year |-> 2026, month |-> 1]
    /\ dres = None
StoreIdle == store = <<>> /\ calls = <<>>
HtmlIdle ==
    /\ hpc = "idle" /\ hurl = <<>> /\ hlimit = 0 /\ hbudget = 0 /\ hmeta = None
    /\ items = <<>> /\ seen = {} /\ detail_used = 0 /\ hlog = None
MainIdle ==
    /\ pc = "idle" /\ env = [token |-> TRUE, dbid |-> TRUE, sources |-> <<>>]
    /\ now = None /\ win = None /\ si = 0 /\ cur = 0
    /\ created = 0 /\ updated = 0 /\ skipped_time = 0 /\ skipped_nodate = 0
    /\ errors = 0 /\ trace = <<>>

Bases == [year : {2025, 2026}, month : 1 .. 12]

Months == 1 .. 12
DaySamples == {9, 10, 20}
YearlessForms == {"md", "md_space", "slash", "dash"}
Prefixes == {<<>>, <<"x", " ">>}

\* a date text without a year, as pages write it
YearlessText(m, d, form, padded, prefix) ==
    LET mm == IF padded THEN Pad2(m) ELSE IntToStr(m)
        dd == IF padded THEN Pad2(d) ELSE IntToStr(d)
    IN  prefix \o
        CASE form = "md"       -> mm \o <<"gatsu">> \o dd \o <<"nichi">>
          [] form = "md_space" -> mm \o <<"gatsu", " ">> \o dd \o <<"nichi">>
          [] form = "slash"    -> mm \o <<"/">> \o dd
          [] form = "dash"     -> mm \o <<"-">> \o dd

YearlessTexts ==
    {YearlessText(m, d, f, p, x) :
        m \in Months, d \in DaySamples, f \in YearlessForms,
        p \in BOOLEAN, x \in Prefixes}

T_ISO   == <<"2", "0", "2", "6", "/", "1", "/", "9">>
T_SHORT == <<"1", "/", "9">>
T_ERA   == <<"rei", "wa", "8", "nen", "1", "gatsu", "9", "nichi">>
T_GREG  == <<"2", "0", "2", "5", "nen", "1", "2", "gatsu", "3", "nichi">>
T_MD    == <<"4", "gatsu", "5", "nichi">>

Fragments == {T_ISO, T_SHORT, T_ERA, T_GREG, T_MD, <<" ">>, <<"x">>, <<"2", "0">>}

RECURSIVE FragTexts(_)
\* the texts made of at most n fragments
FragTexts(n) ==
    IF n = 0 THEN {<<>>}
    ELSE LET shorter == FragTexts(n - 1)
         IN  shorter \cup {t \o f : t \in shorter, f \in Fragments}

(***************************************************************************)
(* The date functions applied to their inputs                              *)
(***************************************************************************)
InitNormalize ==
    /\ dpc = "input" /\ dres = None
    /\ text \in YearlessTexts \cup FragTexts(1) \cup {None}
    /\ base \in Bases
    /\ StoreIdle /\ HtmlIdle /\ MainIdle

Normalize ==
    /\ dpc = "input"
    /\ dres' = normalize_date_text(text, base)
    /\ dpc' = "normalized"
    /\ UNCHANGED <<text, base, storeVars, htmlVars, mainVars>>

NextNormalize == Normalize

SpecNormalize == InitNormalize /\ [][NextNormalize]_vars

InitExtract ==
    /\ dpc = "input" /\ dres = None
    /\ text \in FragTexts(MaxFrags) \cup {None}
    /\ base = [year |-> 2026, month |-> 1]
    /\ StoreIdle /\ HtmlIdle /\ MainIdle

Extract ==
    /\ dpc = "input"
    /\ dres' = extract_date_text(text)
    /\ dpc' = "extracted"
    /\ UNCHANGED <<text, base, storeVars, htmlVars, mainVars>>

NextExtract == Extract

SpecExtract == InitExtract /\ [][NextExtract]_vars

(***************************************************************************)
(* notion_client_util.py: the database and upsert_page.                    *)
(* A page is its properties, a function from property names; the database  *)
(* is the sequence of its pages, a page's id being its index.              *)
(***************************************************************************)
TitleMax == 200
KeyMax == 2000

\* datetime.isoformat() of the instant t: a text naming t
IsoFormat(t) == <<"iso", t>>

\* s[:n]
Prefix(s, n) == SubSeq(s, 1, Min(n, Len(s)))

\* f overridden by g where g is defined
Merge(f, g) ==
    [k \in DOMAIN f \cup DOMAIN g |-> IF k \in DOMAIN g THEN g[k] ELSE f[k]]

\* notion.databases.query(filter Key equals key, page_size=1): the ids the
\* query may answer with; None (0) when nothing matches
find_page_by_key(db, key) ==
    LET hits == {i \in 1 .. Len(db) : db[i].Key = key}
    IN  IF hits = {} THEN {0} ELSE hits

build_properties(title, url, agency, published_at_iso, fetched_at_iso, item_type, key) ==
    LET k == IF Falsy(key) THEN url ELSE key
        props == [Title  |-> Prefix(title, TitleMax),
                  URL    |-> url,
                  Agency |-> agency,
                  Key    |-> Prefix(k, KeyMax),
                  FetchedAt |-> fetched_at_iso,
                  Type   |-> item_type]
    IN  IF published_at_iso = None THEN props
        ELSE Merge(props, [PublishedAt |-> published_at_iso])

\* The outcomes of upsert_page(title, url, agency, published_at_iso) on
\* database db at time t: the database after it and the value returned.
upsert_page(db, t, title, url, agency, published_at_iso) ==
    LET key   == url
        props == build_properties(title, url, agency, published_at_iso, t, "RSS", key)
    IN  {IF existing # 0
         THEN [db  |-> [db EXCEPT ![existing] = Merge(@, props)],
               res |-> "updated"]
         ELSE [db  |-> Append(db, props), res |-> "created"]
         : existing \in find_page_by_key(db, key)}

(***************************************************************************)
(* Sequential upsert_page calls with the arguments main passes             *)
(***************************************************************************)
MaxCalls == 3

\* a link of KeyMax + 1 characters ending in c
LongLink(c) == [i \in 1 .. (KeyMax + 1) |-> IF i <= KeyMax THEN "a" ELSE c]

\* links differing in a trailing slash or in case are different links
Links == {<<"h", "/", "a">>, <<"h", "/", "a", "/">>, <<"h", "/", "A">>,
          LongLink("1"), LongLink("2")}
Titles == {<<"t", "1">>, <<"t", "2">>}
Agencies == {"muniA", "muniB"}
Instants == {IsoFormat(10), IsoFormat(20)}

InitUpsert ==
    /\ store = <<>> /\ calls = <<>>
    /\ DateIdle /\ HtmlIdle /\ MainIdle

Upsert ==
    /\ Len(calls) < MaxCalls
    /\ \E title \in Titles, url \in Links, agency \in Agencies, pub \in Instants :
         \E out \in upsert_page(store, IsoFormat(Len(calls) + 1), title, url, agency, pub) :
            /\ store' = out.db
            /\ calls' = Append(calls, [title |-> title, url |-> url, agency |-> agency,
                                       pub |-> pub, res |-> out.res])
    /\ UNCHANGED <<dateVars, htmlVars, mainVars>>

NextUpsert == Upsert

SpecUpsert == InitUpsert /\ [][NextUpsert]_vars

(***************************************************************************)
(* main.py: fetch_detail_date, fetch_html_items.                           *)
(* A URL is a text whose first character "h" stands for scheme and host.   *)
(* The anchors of the page arrive one per step, in document order; an      *)
(* anchor is [href, title, ptext, time]: its href, its visible text, its   *)
(* parent's visible text and the <time> found near it (None: no element).  *)
(***************************************************************************)
MinTitleLen == 2
MaxLimit == 2
MaxBudget == 2

RECURSIVE LastIndexOf(_, _)
\* the index of the last c in s, 0 when there is none
LastIndexOf(s, c) ==
    IF s = <<>> THEN 0
    ELSE IF s[Len(s)] = c THEN Len(s) ELSE LastIndexOf(SubSeq(s, 1, Len(s) - 1), c)

RECURSIVE IndexOf(_, _, _)
\* the index of the first c in s from i on, 0 when there is none
IndexOf(s, c, i) ==
    IF i > Len(s) THEN 0 ELSE IF s[i] = c THEN i ELSE IndexOf(s, c, i + 1)

\* the URL without its fragment
Defrag(u) == LET i == IndexOf(u, "#", 1) IN IF i = 0 THEN u ELSE SubSeq(u, 1, i - 1)

\* urllib.parse.urljoin(b, href) for an absolute href, a fragment, a
\* host-relative path and a path relative to the directory of b
urljoin(b, href) ==
    IF href = <<>> THEN b
    ELSE IF href[1] = "h" THEN href
    ELSE IF href[1] = "#" THEN Defrag(b) \o href
    ELSE IF href[1] = "/" THEN <<"h">> \o href
    ELSE SubSeq(Defrag(b), 1, LastIndexOf(Defrag(b), "/")) \o href

\* str.startswith
StartsWith(s, pre) == Len(s) >= Len(pre) /\ SubSeq(s, 1, Len(pre)) = pre

\* (mutant) only the exact self link is recognised
IsSelfLink_exact(link, url) == link = url

\* the link is the page itself or an anchor within it
IsSelfLink(link, url) == StartsWith(link, url \o <<"#">>) \/ link = url

\* a link text too short to be a title
IsDegenerateTitle(title) == Falsy(title) \/ Len(title) < MinTitleLen

\* (mutant) off by one: a request is still made with the budget spent
BudgetLeft_inclusive(used, budget) == used <= budget

\* the budget allows one more detail request
BudgetLeft(used, budget) == used < budget

\* fetch_detail_date(link), page being what the request for link gives:
\* [ok, time, meta, text], ok being false when the request or its parsing raises
fetch_detail_date(page) ==
    IF ~page.ok THEN None
    ELSE IF page.time # None /\ ~Falsy(page.time) THEN page.time
    ELSE IF ~Falsy(page.meta) THEN page.meta
    ELSE extract_date_text(page.text)

\* the date text of an anchor before any detail request
ListingDate(a, meta) ==
    LET around == Strip((IF a.ptext = None THEN <<>> ELSE a.ptext) \o <<" ">> \o a.title)
        d1 == extract_date_text(around)
        d2 == IF Falsy(d1) /\ a.time # None THEN a.time ELSE d1
    IN  IF ~Falsy(d2) THEN d2
        ELSE IF ~Falsy(meta.modified) THEN meta.modified
        ELSE IF ~Falsy(meta.published) THEN meta.published
        ELSE d2

SourceUrls == {<<"h", "/", "n">>}
Hrefs == {<<>>, <<"#", "t">>, <<"n">>, <<"a">>, <<"h", "/", "a">>, <<"/", "b">>,
          <<"h", "/", "c">>}
LinkTexts == {<<>>, <<"x">>, <<"N", "e", "w", "s">>}
ParentTexts == {<<>>, T_ISO \o <<" ", "N", "e", "w", "s">>}
TimeValues == {None, <<>>, T_GREG}
Metas == {[modified |-> None, published |-> None],
          [modified |-> T_ERA, published |-> T_SHORT]}
DetailPages ==
    [ok : {FALSE}, time : {None}, meta : {None}, text : {<<>>}] \cup
    [ok : {TRUE}, time : {None}, meta : {None},
     text : {<<"x">>, <<"x", " ">> \o T_MD}]

NoVisit ==
    [outcome |-> "none", link |-> None, title |-> None, was_seen |-> FALSE,
     pre |-> None, detail |-> "none", used_before |-> 0, items_before |-> 0]

InitHtml ==
    /\ hpc = "start"
    /\ hurl \in SourceUrls
    /\ hlimit \in 0 .. MaxLimit
    /\ hbudget \in 0 .. MaxBudget
    /\ hmeta = None
    /\ items = <<>> /\ seen = {} /\ detail_used = 0
    /\ hlog = [requests |-> 0, last |-> NoVisit]
    /\ DateIdle /\ StoreIdle /\ MainIdle

\* requests.get(url) and raise_for_status() succeed
HtmlFetchOk ==
    /\ hpc = "start"
    /\ hmeta' \in Metas
    /\ hpc' = "loop"
    /\ UNCHANGED <<hurl, hlimit, hbudget, items, seen, detail_used, hlog>>
    /\ UNCHANGED <<dateVars, storeVars, mainVars>>

\* requests.get(url) or raise_for_status() raises
HtmlFetchFail ==
    /\ hpc = "start"
    /\ hpc' = "raised"
    /\ UNCHANGED <<hurl, hlimit, hbudget, hmeta, items, seen, detail_used, hlog>>
    /\ UNCHANGED <<dateVars, storeVars, mainVars>>

\* what the loop body leaves behind for an anchor it does not append
HtmlSkip(o, link, title) ==
    /\ hlog' = [hlog EXCEPT !.last =
                    [outcome |-> o, link |-> link, title |-> title,
                     was_seen |-> link \in seen, pre |-> None, detail |-> "none",
                     used_before |-> detail_used, items_before |-> Len(items)]]
    /\ UNCHANGED <<items, detail_used>>

\* the loop body from the date search on, for an anchor a that passed the filters
HtmlAppend(a, link, pre, page) ==
    LET ask  == Falsy(pre) /\ BudgetLeft(detail_used, hbudget)
        date == IF ask THEN fetch_detail_date(page) ELSE pre
    IN  /\ detail_used' = IF ask THEN detail_used + 1 ELSE detail_used
        /\ items' = Append(items, [title |-> a.title, link |-> link, published |-> date])
        /\ hlog' = [requests |-> hlog.requests + (IF ask THEN 1 ELSE 0),
                    last |-> [outcome |-> "item", link |-> link, title |-> a.title,
                              was_seen |-> link \in seen, pre |-> pre,
                              detail |-> IF ~ask THEN "none"
                                         ELSE IF ~page.ok THEN "error" ELSE "ok",
                              used_before |-> detail_used,
                              items_before |-> Len(items)]]

\* one pass of the loop body for the next anchor of the region
HtmlVisit ==
    /\ hpc = "loop"
    /\ Len(items) < hlimit
    /\ \E href \in Hrefs, title \in LinkTexts :
         LET link == urljoin(hurl, href)
         IN  IF Falsy(href) THEN HtmlSkip("nohref", None, title) /\ UNCHANGED seen
             ELSE IF IsSelfLink(link, hurl) THEN HtmlSkip("self", link, title) /\ UNCHANGED seen
             ELSE IF link \in seen THEN HtmlSkip("dup", link, title) /\ UNCHANGED seen
             ELSE /\ seen' = seen \cup {link}
                  /\ IF IsDegenerateTitle(title) THEN HtmlSkip("notitle", link, title)
                     ELSE \E ptext \in ParentTexts, time \in TimeValues :
                            LET a == [href |-> href, title |-> title,
                                      ptext |-> ptext, time |-> time]
                            IN  \E pre \in {ListingDate(a, hmeta)} :
                                  IF Falsy(pre) /\ BudgetLeft(detail_used, hbudget)
                                  THEN \E page \in DetailPages :
                                           HtmlAppend(a, link, pre, page)
                                  ELSE HtmlAppend(a, link, pre, [ok |-> FALSE])
    /\ UNCHANGED <<hpc, hurl, hlimit, hbudget, hmeta>>
    /\ UNCHANGED <<dateVars, storeVars, mainVars>>

\* the region has no further anchor, or items is full: return items
HtmlReturn ==
    /\ hpc = "loop"
    /\ hpc' = "returned"
    /\ UNCHANGED <<hurl, hlimit, hbudget, hmeta, items, seen, detail_used, hlog>>
    /\ UNCHANGED <<dateVars, storeVars, mainVars>>

NextHtml == HtmlFetchOk \/ HtmlFetchFail \/ HtmlVisit \/ HtmlReturn

SpecHtml == InitHtml /\ [][NextHtml]_vars

(***************************************************************************)
(* main.py: parse_datetime_jst.  An instant is a number of minutes since   *)
(* 1970-01-01T00:00 UTC; a datetime of the JST zone is the instant it      *)
(* names.                                                                  *)
(***************************************************************************)
\* what parse_datetime_jst returns for None
NoInstant == -1

\* timedelta(hours=9), in minutes
JST == 540

MinutesPerDay == 1440

\* the days from 1970-01-01 to the civil date y-m-d
DaysFromCivil(y, m, d) ==
    LET yy  == IF m <= 2 THEN y - 1 ELSE y
        era == yy \div 400
        yoe == yy - era * 400
        mp  == IF m > 2 THEN m - 3 ELSE m + 9
        doy == (153 * mp + 2) \div 5 + d - 1
        doe == yoe * 365 + yoe \div 4 - yoe \div 100 + doy
    IN  era * 146097 + doe - 719468

IsLeap(y) == (y % 4 = 0 /\ y % 100 # 0) \/ y % 400 = 0

DaysInMonth(y, m) ==
    IF m = 2 THEN (IF IsLeap(y) THEN 29 ELSE 28)
    ELSE IF m \in {4, 6, 9, 11} THEN 30 ELSE 31

\* the minutes from 1970-01-01T00:00 to the civil time, read in one zone
CivilMinutes(y, m, d, hh, mi) == DaysFromCivil(y, m, d) * MinutesPerDay + hh * 60 + mi

\* the instant a JST datetime names
JstInstant(dt) == CivilMinutes(dt.year, dt.month, dt.day, dt.hour, dt.minute) - JST

MonthNames ==
    <<<<"J", "a", "n">>, <<"F", "e", "b">>, <<"M", "a", "r">>, <<"A", "p", "r">>,
      <<"M", "a", "y">>, <<"J", "u", "n">>, <<"J", "u", "l">>, <<"A", "u", "g">>,
      <<"S", "e", "p">>, <<"O", "c", "t">>, <<"N", "o", "v">>, <<"D", "e", "c">>>>

Letter == {MonthNames[i][j] : i \in 1 .. 12, j \in 1 .. 3}

D2 == E(Digit, 2, 2)
DU_DATE  == <<D4, Lit("-"), D2, Lit("-"), D2>>
DU_RFC   == <<D2, Lit(" "), E(Letter, 3, 3), Lit(" "), D4, Lit(" "), D2, Lit(":"), D2>>
DU_RFCTZ == DU_RFC \o <<Lit(" "), E({"+", "-"}, 1, 1), D2, D2>>

\* the match of pat with the whole of s, or << >>
FullMatch(pat, s) ==
    LET m == MatchAt(pat, 1, s, 1)
    IN  IF m # <<>> /\ m[Len(m)] = Len(s) + 1 THEN m ELSE <<>>

ValidCivil(y, m, d, hh, mi) ==
    /\ y >= 1 /\ m \in 1 .. 12 /\ d >= 1 /\ d <= DaysInMonth(y, m)
    /\ hh < 24 /\ mi < 60

Failed == [ok |-> FALSE, aware |-> FALSE, minutes |-> 0, offset |-> 0]

\* dateutil.parser.parse(s) for the shapes the pipeline meets: a canonical
\* YYYY-MM-DD, and a mail date "DD Mon YYYY HH:MM" with or without a numeric
\* zone; ok is false where it raises
dateparser_parse(s) ==
    LET md == FullMatch(DU_DATE, s)
        mr == FullMatch(DU_RFC, s)
        mz == FullMatch(DU_RFCTZ, s)
        G(m, k) == ToInt(Group(s, m, k, k))
        mail(m, aware) ==
            LET names == {i \in 1 .. 12 : MonthNames[i] = Group(s, m, 3, 3)}
            IN  IF names = {} THEN Failed
                ELSE LET mon == CHOOSE i \in names : TRUE
                     IN  IF ~ValidCivil(G(m, 5), mon, G(m, 1), G(m, 7), G(m, 9)) THEN Failed
                         ELSE [ok |-> TRUE, aware |-> aware,
                               minutes |-> CivilMinutes(G(m, 5), mon, G(m, 1), G(m, 7), G(m, 9)),
                               offset |-> IF ~aware THEN 0
                                          ELSE (IF Group(s, m, 11, 11) = <<"-">> THEN -1 ELSE 1)
                                               * (G(m, 12) * 60 + G(m, 13))]
    IN  IF s = None THEN Failed
        ELSE IF md # <<>>
             THEN IF ~ValidCivil(G(md, 1), G(md, 3), G(md, 5), 0, 0) THEN Failed
                  ELSE [ok |-> TRUE, aware |-> FALSE, offset |-> 0,
                        minutes |-> CivilMinutes(G(md, 1), G(md, 3), G(md, 5), 0, 0)]
        ELSE IF mz # <<>> THEN mail(mz, TRUE)
        ELSE IF mr # <<>> THEN mail(mr, FALSE)
        ELSE Failed

\* parse_datetime_jst(text) at the moment dt: the instant, or NoInstant
\* a variant that dates an unparseable text with the moment of the run
parse_datetime_jst_lenient(s, dt) ==
    IF Falsy(s) THEN NoInstant
    ELSE LET p == dateparser_parse(normalize_date_text(s, [year |-> dt.year,
                                                           month |-> dt.month]))
         IN  IF ~p.ok THEN JstInstant(dt)
             ELSE IF ~p.aware THEN p.minutes
             ELSE p.minutes - p.offset

parse_datetime_jst(s, dt) ==
    IF Falsy(s) THEN NoInstant
    ELSE LET norm == normalize_date_text(s, [year |-> dt.year, month |-> dt.month])
             p    == dateparser_parse(norm)
         IN  IF ~p.ok THEN NoInstant
             ELSE IF ~p.aware THEN p.minutes
             ELSE p.minutes - p.offset

(***************************************************************************)
(* main.py: looks_like_rss_url, normalize_title, fetch_rss_items           *)
(***************************************************************************)
FeedLimit == 50

LowerChar(c) ==
    CASE c = "R" -> "r" [] c = "S" -> "s" [] c = "X" -> "x" [] c = "M" -> "m"
      [] c = "L" -> "l" [] c = "D" -> "d" [] c = "F" -> "f" [] OTHER -> c

\* str.lower()
Lower(s) == [i \in 1 .. Len(s) |-> LowerChar(s[i])]

\* str.endswith
EndsWith(s, suf) ==
    Len(s) >= Len(suf) /\ SubSeq(s, Len(s) - Len(suf) + 1, Len(s)) = suf

\* sub in s
Contains(s, sub) ==
    \E i \in 1 .. (Len(s) - Len(sub) + 1) : SubSeq(s, i, i + Len(sub) - 1) = sub

\* a variant that takes every URL with a path for a feed
looks_like_rss_url_any(url) == Contains(Lower(url), <<"/">>)

looks_like_rss_url(url) ==
    LET u == Lower(url)
    IN  \/ \E suf \in {<<".", "r", "s", "s">>, <<".", "r", "d", "f">>, <<".", "x", "m", "l">>} :
              EndsWith(u, suf)
        \/ Contains(u, <<"r", "s", "s">>)

RECURSIVE RStripSlash(_)
\* str.rstrip("/")
RStripSlash(s) ==
    IF s # <<>> /\ s[Len(s)] = "/" THEN RStripSlash(SubSeq(s, 1, Len(s) - 1)) ELSE s

\* urlparse(u).path: what follows scheme and host, up to a query or fragment
UrlPath(u) ==
    LET q == IndexOf(u, "?", 1)
        f == IndexOf(u, "#", 1)
        e == IF q # 0 /\ (f = 0 \/ q < f) THEN q - 1 ELSE IF f # 0 THEN f - 1 ELSE Len(u)
    IN  SubSeq(u, 2, e)

normalize_title(title, fallback_url) ==
    IF ~Falsy(title) /\ Strip(title) # <<>> THEN Prefix(Strip(title), TitleMax)
    ELSE LET p == RStripSlash(UrlPath(fallback_url))
         IN  Prefix(IF p # <<>> THEN SubSeq(p, LastIndexOf(p, "/") + 1, Len(p))
                    ELSE fallback_url, TitleMax)

\* how many items fetch_rss_items returns for a feed whose entries are
\* `entries`, each TRUE when it has a link or an id
\* a variant that keeps the entries without a link
fetch_rss_items_all(entries, limit) == Min(Len(entries), limit)

fetch_rss_items(entries, limit) ==
    Cardinality({i \in 1 .. Min(Len(entries), limit) : entries[i]})

(***************************************************************************)
(* main.py: main.  trace is what the run has done, for the claims:         *)
(*   cands       candidates returned by the adapters and classified so far *)
(*   store_errs  upsert_page calls that raised                             *)
(*   fetch_errs  sources whose fetch failed                                *)
(*   fetched     an adapter call has been made                             *)
(*   seen_raw    the date texts met, as long as each is one of R_Y10,      *)
(*               R_T01, R_Bad and was met once; Several from then on       *)
(*   src         the current source: whether it is feed-like, what the     *)
(*               feed held ("empty", "linkless": entries but none with a   *)
(*               link, "items") or "raised", what the page adapter did,    *)
(*               the links the page gave                                   *)
(*   last        the candidate classified last: its date text and outcome  *)
(***************************************************************************)
MaxSources == 2
MaxItems == 3
\* the candidates of one run, all sources together
MaxTotal == 3

\* a variant with the end of the window inside
InWindow_closed(t, w) == w.start <= t /\ t <= w.end

\* yesterday_0 <= published_jst < today_0
InWindow(t, w) == w.start <= t /\ t < w.end

\* a variant that does not look at the source list
ConfigOk_any_list(e) == e.token /\ e.dbid

\* get_notion_client and get_database_id find their settings, and the source
\* list is not empty
ConfigOk(e) == e.token /\ e.dbid /\ e.sources # <<>>

Mail(dd, mon, yyyy, hh, mi, zone) == dd \o <<" ">> \o mon \o <<" ">> \o yyyy \o <<" ">>
                                       \o hh \o <<":">> \o mi \o zone

Y2026 == <<"2", "0", "2", "6">>
JstZone == <<" ", "+", "0", "9", "0", "0">>

R_Bad   == <<"x">>
R_Start == Mail(<<"0", "1">>, MonthNames[1], Y2026, <<"0", "0">>, <<"0", "0">>, JstZone)
R_End   == Mail(<<"0", "2">>, MonthNames[1], Y2026, <<"0", "0">>, <<"0", "0">>, JstZone)
R_Y10   == Mail(<<"0", "1">>, MonthNames[1], Y2026, <<"1", "0">>, <<"0", "0">>, JstZone)
R_T01   == Mail(<<"0", "2">>, MonthNames[1], Y2026, <<"0", "1">>, <<"0", "0">>, JstZone)
R_Utc   == Mail(<<"3", "1">>, MonthNames[12], <<"2", "0", "2", "5">>, <<"1", "5">>, <<"0", "0">>,
                <<" ", "+", "0", "0", "0", "0">>)
\* a year-less date of last December, seen in January
R_MD    == <<"1", "2", "gatsu", "3", "1", "nichi">>

RawDates == {None, R_Bad, R_Start, R_End, R_Y10, R_T01, R_Utc, R_MD}

Nows == {[year |-> 2026, month |-> 1, day |-> 2, hour |-> 1, minute |-> 30],
         [year |-> 2026, month |-> 1, day |-> 3, hour |-> 0, minute |-> 0]}

\* published_jst = parse_datetime_jst(it.get("published")), for every date
\* text and every moment of the run
published_jst == [raw \in RawDates, dt \in Nows |-> parse_datetime_jst(raw, dt)]

SourcePool ==
    {[muni |-> "muniA", url |-> <<"h", "/", "R", "S", "S">>],
     [muni |-> "muniB", url |-> <<"h", "/", "n">>]}

RECURSIVE SourceLists(_)
SourceLists(n) ==
    IF n = 0 THEN {<<>>}
    ELSE LET shorter == SourceLists(n - 1)
         IN  shorter \cup {Append(l, x) : l \in {k \in shorter : Len(k) = n - 1},
                                          x \in SourcePool}

CandLinks == {<<"h", "/", "a">>, <<"h", "/", "b", "/">>}
\* the (title, link) of the candidates: a feed entry may have no title, an
\* anchor kept by fetch_html_items has one
Cands(type) ==
    {[title |-> <<"N", "e", "w", "s">>, link |-> <<"h", "/", "a">>],
     [title |-> IF type = "RSS" THEN None ELSE <<"N", "e", "w", "s">>,
      link |-> <<"h", "/", "b", "/">>]}

NoSource == [feed_like |-> FALSE, feed |-> "none", page |-> "none", type |-> "HTML",
             links |-> {}]

\* the record of source number i, nothing done for it yet
FreshSource(i) ==
    IF i > Len(env.sources) THEN NoSource
    ELSE [NoSource EXCEPT !.feed_like = looks_like_rss_url(env.sources[i].url)]

RECURSIVE BoolSeqs(_)
\* the feeds of at most n entries, an entry being TRUE when it has a link
BoolSeqs(n) ==
    IF n = 0 THEN {<<>>}
    ELSE LET shorter == BoolSeqs(n - 1)
         IN  shorter \cup {Append(l, b) : l \in shorter, b \in BOOLEAN}
NoItem == [raw |-> None, outcome |-> "none"]

Several == {None}
CountRaw(c, raw) ==
    IF c # Several /\ raw \in {R_Y10, R_T01, R_Bad} \ c THEN c \cup {raw} ELSE Several

InitMain ==
    /\ pc = "start"
    /\ env \in [token : BOOLEAN, dbid : BOOLEAN, sources : SourceLists(MaxSources)]
    /\ now \in Nows
    /\ win = None
    /\ si = 0 /\ cur = 0
    /\ created = 0 /\ updated = 0 /\ skipped_time = 0 /\ skipped_nodate = 0 /\ errors = 0
    /\ store = <<>> /\ calls = <<>>
    /\ trace = [cands |-> 0, store_errs |-> 0, fetch_errs |-> 0, fetched |-> FALSE,
                seen_raw |-> {}, src |-> NoSource, last |-> NoItem]
    /\ DateIdle /\ HtmlIdle

\* get_notion_client, get_database_id or the empty source list raises
ConfigError ==
    /\ pc = "start"
    /\ ~ConfigOk(env)
    /\ pc' = "aborted"
    /\ UNCHANGED <<env, now, win, si, cur, created, updated, skipped_time,
                   skipped_nodate, errors, trace>>
    /\ UNCHANGED <<dateVars, storeVars, htmlVars>>

\* the window is computed and the source list read
Start ==
    /\ pc = "start"
    /\ ConfigOk(env)
    /\ LET today_0 == JstInstant([now EXCEPT !.hour = 0, !.minute = 0])
           yesterday_0 == today_0 - MinutesPerDay
       IN  win' = [start |-> yesterday_0, end |-> today_0]
    /\ si' = 1
    /\ pc' = "select"
    /\ trace' = [trace EXCEPT !.src = FreshSource(1)]
    /\ UNCHANGED <<env, now, cur, created, updated, skipped_time, skipped_nodate, errors>>
    /\ UNCHANGED <<dateVars, storeVars, htmlVars>>

\* the source looks like a feed: fetch_rss_items is tried first
TryFeed ==
    /\ pc = "select" /\ si <= Len(env.sources)
    /\ looks_like_rss_url(env.sources[si].url)
    /\ \/ \* feedparser.parse raises
          /\ pc' = "fallback"
          /\ cur' = 0
          /\ trace' = [trace EXCEPT !.src.feed = "raised", !.fetched = TRUE]
       \/ \E entries \in BoolSeqs(MaxItems) :
            LET n == fetch_rss_items(entries, FeedLimit)
            IN  /\ trace.cands + n <= MaxTotal
                /\ cur' = n
                /\ pc' = IF n > 0 THEN "items" ELSE "fallback"
                /\ trace' = [trace EXCEPT !.fetched = TRUE,
                                !.src.feed =
                                    IF entries = <<>> THEN "empty"
                                    ELSE IF \A i \in DOMAIN entries : ~entries[i]
                                    THEN "linkless" ELSE "items",
                                !.src.type = IF n > 0 THEN "RSS" ELSE "HTML"]
    /\ UNCHANGED <<env, now, win, si, created, updated, skipped_time, skipped_nodate, errors>>
    /\ UNCHANGED <<dateVars, storeVars, htmlVars>>

\* the source does not look like a feed: straight to the page
SkipFeed ==
    /\ pc = "select" /\ si <= Len(env.sources)
    /\ ~looks_like_rss_url(env.sources[si].url)
    /\ pc' = "fallback"
    /\ UNCHANGED <<env, now, win, si, cur, created, updated, skipped_time,
                   skipped_nodate, errors, trace>>
    /\ UNCHANGED <<dateVars, storeVars, htmlVars>>

\* fetch_html_items returns n items
PageFetchOk ==
    /\ pc = "fallback"
    /\ \E n \in 0 .. Min(MaxItems, Cardinality(CandLinks)) :
         /\ trace.cands + n <= MaxTotal
         /\ cur' = n
         /\ trace' = [trace EXCEPT !.fetched = TRUE, !.src.type = "HTML",
                         !.src.page = IF n > 0 THEN "items" ELSE "empty"]
    /\ pc' = "items"
    /\ UNCHANGED <<env, now, win, si, created, updated, skipped_time, skipped_nodate, errors>>
    /\ UNCHANGED <<dateVars, storeVars, htmlVars>>

\* fetch_html_items raises: the source is given up
PageFetchFail ==
    /\ pc = "fallback"
    /\ errors' = errors + 1
    /\ si' = si + 1
    /\ cur' = 0
    /\ pc' = "select"
    /\ trace' = [trace EXCEPT !.fetched = TRUE, !.fetch_errs = @ + 1,
                    !.src = FreshSource(si + 1)]
    /\ UNCHANGED <<env, now, win, created, updated, skipped_time, skipped_nodate>>
    /\ UNCHANGED <<dateVars, storeVars, htmlVars>>

\* one pass of the loop over items, for the next item of the source
ProcessItem ==
    /\ pc = "items" /\ cur > 0
    /\ \E raw \in RawDates, c \in Cands(trace.src.type) :
         /\ trace.src.type = "HTML" => c.link \notin trace.src.links
         /\ \E t \in {published_jst[raw, now]} :
              LET link == c.link
                  title == c.title
                  seenItem(o) ==
                      [trace EXCEPT !.cands = @ + 1,
                                    !.seen_raw = CountRaw(@, raw),
                                    !.src.links = IF trace.src.type = "HTML"
                                                  THEN @ \cup {link} ELSE @,
                                    !.store_errs = IF o = "store_error" THEN @ + 1 ELSE @,
                                    !.last = [raw |-> raw, outcome |-> o]]
              IN  IF t = NoInstant
                  THEN /\ skipped_nodate' = skipped_nodate + 1
                       /\ trace' = seenItem("nodate")
                       /\ UNCHANGED <<store, created, updated, skipped_time, errors>>
                  ELSE IF ~InWindow(t, win)
                  THEN /\ skipped_time' = skipped_time + 1
                       /\ trace' = seenItem("time")
                       /\ UNCHANGED <<store, created, updated, skipped_nodate, errors>>
                  ELSE \/ \E out \in upsert_page(store, IsoFormat(JstInstant(now)),
                                                normalize_title(title, link), link,
                                                env.sources[si].muni, IsoFormat(t)) :
                            /\ store' = out.db
                            /\ created' = IF out.res = "created" THEN created + 1 ELSE created
                            /\ updated' = IF out.res = "created" THEN updated ELSE updated + 1
                            /\ trace' = seenItem(out.res)
                            /\ UNCHANGED <<skipped_time, skipped_nodate, errors>>
                       \/ \* the lookup or the write raises
                          /\ errors' = errors + 1
                          /\ trace' = seenItem("store_error")
                          /\ UNCHANGED <<store, created, updated, skipped_time,
                                         skipped_nodate>>
    /\ cur' = cur - 1
    /\ UNCHANGED <<pc, env, now, win, si, calls>>
    /\ UNCHANGED <<dateVars, htmlVars>>

\* the items of the source are exhausted
NextSource ==
    /\ pc = "items" /\ cur = 0
    /\ si' = si + 1
    /\ pc' = "select"
    /\ trace' = [trace EXCEPT !.src = FreshSource(si + 1)]
    /\ UNCHANGED <<env, now, win, cur, created, updated, skipped_time, skipped_nodate, errors>>
    /\ UNCHANGED <<dateVars, storeVars, htmlVars>>

\* the sources are exhausted: the summary is printed
Finish ==
    /\ pc = "select" /\ si > Len(env.sources)
    /\ pc' = "done"
    /\ UNCHANGED <<env, now, win, si, cur, created, updated, skipped_time,
                   skipped_nodate, errors, trace>>
    /\ UNCHANGED <<dateVars, storeVars, htmlVars>>

NextMain ==
    \/ ConfigError \/ Start \/ TryFeed \/ SkipFeed \/ PageFetchOk \/ PageFetchFail
    \/ ProcessItem \/ NextSource \/ Finish

SpecMain == InitMain /\ [][NextMain]_vars

(***************************************************************************)
(*                               CLAIMS                                    *)
(***************************************************************************)

\* ---- what a pattern matches, stated without the matcher's search order
RECURSIVE InLang(_, _, _)
\* w is, as a whole, a match of pat[k..]
InLang(pat, k, w) ==
    IF k > Len(pat) THEN w = <<>>
    ELSE \E n \in pat[k].lo .. Min(pat[k].hi, Len(w)) :
            /\ AllIn(w, 1, n, pat[k].cls)
            /\ InLang(pat, k + 1, SubSeq(w, n + 1, Len(w)))

SubstringsOf(s) == {SubSeq(s, i, j) : i \in 1 .. Len(s), j \in 1 .. Len(s)}

Occurs(pat, s) == s # None /\ \E w \in SubstringsOf(s) : InLang(pat, 1, w)

\* The extractor returns a match of the first pattern of `order` that occurs
\* anywhere in the text, and None exactly when none occurs.
Precedence(order) ==
    dpc = "extracted" =>
        /\ (dres = None) <=> (\A k \in 1 .. Len(order) : ~Occurs(order[k], text))
        /\ \A k \in 1 .. Len(order) :
              (Occurs(order[k], text) /\ \A j \in 1 .. (k - 1) : ~Occurs(order[j], text))
                  => /\ dres \in SubstringsOf(text)
                     /\ InLang(order[k], 1, dres)

\* C7: a date text without a year, of month M and day D, normalized against a
\* reference of year Y and month R, gets year Y-1 when M > R and year Y when
\* M <= R, for every M and R in 1..12; reference 2026-01 turns 12月20日 into
\* 2025-12-20 and 1月10日 into 2026-01-10.
C7_YearlessRollover ==
    dpc = "normalized" =>
        /\ \A m \in Months, d \in DaySamples, f \in YearlessForms,
                p \in BOOLEAN, x \in Prefixes :
              text = YearlessText(m, d, f, p, x) =>
                  dres = IntToStr(IF m > base.month THEN base.year - 1 ELSE base.year)
                            \o <<"-">> \o Pad2(m) \o <<"-">> \o Pad2(d)
        /\ (base = [year |-> 2026, month |-> 1] /\ text = <<"1", "2", "gatsu", "2", "0", "nichi">>)
              => dres = <<"2", "0", "2", "5", "-", "1", "2", "-", "2", "0">>
        /\ (base = [year |-> 2026, month |-> 1] /\ text = <<"1", "gatsu", "1", "0", "nichi">>)
              => dres = <<"2", "0", "2", "6", "-", "0", "1", "-", "1", "0">>

C7_Witness ==
    /\ dpc = "normalized"
    /\ base = [year |-> 2026, month |-> 1]
    /\ text = <<"1", "2", "gatsu", "2", "0", "nichi">>
    /\ dres = <<"2", "0", "2", "5", "-", "1", "2", "-", "2", "0">>

\* C8 (as claimed): the extractor returns the match of the highest-priority
\* pattern occurring anywhere in the text, in the order ISO-like numeric, era
\* long form, Gregorian long form, year-less long form, short numeric pair,
\* and None exactly when no pattern matches; a text with an era date and a
\* Gregorian long-form date yields the era date.
C8_Claimed_EraBeforeGregorian ==
    Precedence(<<PAT_ISO, PAT_ERA, PAT_GREG, PAT_MD, PAT_SHORT>>)

\* C8 (amended): the same with the order ISO-like numeric, Gregorian long
\* form, era long form, year-less long form, short numeric pair; a text with
\* "2026/1/9" and a standalone "1/9" yields "2026/1/9", and a text with an era
\* date and a Gregorian long-form date yields the Gregorian one.
C8_ExtractPrecedence ==
    /\ Precedence(<<PAT_ISO, PAT_GREG, PAT_ERA, PAT_MD, PAT_SHORT>>)
    /\ dpc = "extracted" =>
          /\ text \in {T_SHORT \o <<" ">> \o T_ISO, T_ISO \o <<" ">> \o T_SHORT}
                => dres = T_ISO
          /\ text \in {T_ERA \o <<" ">> \o T_GREG, T_GREG \o <<" ">> \o T_ERA}
                => dres = T_GREG

C8_Witness ==
    /\ dpc = "extracted"
    /\ text = T_ERA \o <<" ">> \o T_GREG
    /\ dres = T_GREG

\* C1: after any sequence of reconciles, for every link reconciled the store
\* holds exactly one record of it; the first reconcile of a link reports
\* Created and every later one Updated; the record holds the title, source
\* name and published instant of the latest reconcile of the link; and its
\* identity key is the link verbatim, the value find_by_key is given.
C1_Claimed_OneRecordPerLink ==
    \A n \in 1 .. Len(calls) :
        LET c      == calls[n]
            first  == \A j \in 1 .. (n - 1) : calls[j].url # c.url
            latest == \A j \in (n + 1) .. Len(calls) : calls[j].url # c.url
            recs   == {i \in 1 .. Len(store) : store[i].URL = c.url}
        IN  /\ c.res = IF first THEN "created" ELSE "updated"
            /\ Cardinality(recs) = 1
            /\ \A i \in recs :
                  /\ store[i].Key = c.url
                  /\ find_page_by_key(store, c.url) = {i}
                  /\ latest => /\ store[i].Title = c.title
                               /\ store[i].Agency = c.agency
                               /\ store[i].PublishedAt = c.pub

\* C9: in one page fetch the detail-page requests never exceed detail_budget;
\* a request is made only for a candidate still undated after the parent
\* text, the date element and the page metadata; every request, failed or
\* not, takes one unit of the budget; a failed request leaves the candidate's
\* date absent and the fetch goes on; with the budget spent, an undated
\* candidate is returned with its date absent.
C9_DetailBudget ==
    hpc \in {"loop", "returned"} =>
        LET l == hlog.last
            newest == items[Len(items)]
        IN  /\ hlog.requests <= hbudget
            /\ hlog.requests = detail_used
            /\ l.detail # "none" =>
                  /\ l.outcome = "item" /\ newest.link = l.link
                  /\ Falsy(l.pre)
                  /\ l.used_before < hbudget
                  /\ detail_used = l.used_before + 1
            /\ l.detail = "none" => detail_used = l.used_before
            /\ l.detail = "error" => newest.published = None
            /\ (l.outcome = "item" /\ Falsy(l.pre) /\ l.used_before >= hbudget) =>
                  /\ l.detail = "none"
                  /\ newest.link = l.link /\ Falsy(newest.published)

C9_Witness ==
    /\ hpc = "returned" /\ hbudget = 1 /\ detail_used = 1 /\ Len(items) = 2
    /\ items[1].published = None /\ items[2].published = None
    /\ hlog.last.outcome = "item" /\ hlog.last.used_before = 1
    /\ hlog.last.detail = "none" /\ hlog.requests = 1

Today0 == CivilMinutes(now.year, now.month, now.day, 0, 0) - JST
Yesterday0 == Today0 - MinutesPerDay

\* the instant each dated text of RawDates names, worked out by hand
Expected(raw) ==
    CASE raw \in {R_Start, R_Utc} -> CivilMinutes(2026, 1, 1, 0, 0) - JST
      [] raw = R_End               -> CivilMinutes(2026, 1, 2, 0, 0) - JST
      [] raw = R_Y10               -> CivilMinutes(2026, 1, 1, 10, 0) - JST
      [] raw = R_T01               -> CivilMinutes(2026, 1, 2, 1, 0) - JST
      [] raw = R_MD                -> CivilMinutes(2025, 12, 31, 0, 0)

Undated == {None, R_Bad}
Forwarded(o) == o \in {"created", "updated", "store_error"}
Running == pc \in {"select", "fallback", "items"} /\ si <= Len(env.sources)
NonFeedUrl == <<"h", "/", "n">>
FeedUrl == <<"h", "/", "R", "S", "S">>

\* C2: a candidate whose date names the instant t is forwarded to the store
\* exactly when start <= t < end, start being local midnight yesterday and
\* end local midnight today; t = start is forwarded, t = end is counted as
\* skipped_time.
C2_WindowHalfOpen ==
    /\ pc \notin {"start", "aborted"} =>
          /\ win = [start |-> Yesterday0, end |-> Today0]
          /\ win.start < win.end
          /\ (win.start + JST) % MinutesPerDay = 0 /\ (win.end + JST) % MinutesPerDay = 0
    /\ (trace.last.outcome # "none" /\ trace.last.raw \notin Undated) =>
          LET t == Expected(trace.last.raw)
              o == trace.last.outcome
          IN  /\ Forwarded(o) <=> (Yesterday0 <= t /\ t < Today0)
              /\ ~Forwarded(o) => o = "time"
              /\ t = Yesterday0 => Forwarded(o)
              /\ t = Today0 => o = "time"

C2_Witness ==
    /\ trace.last.raw = R_End /\ trace.last.outcome = "time"
    /\ Expected(R_End) = Today0
    /\ skipped_time = 1
    /\ Len(store) = 1 /\ store[1].PublishedAt = IsoFormat(Yesterday0)

\* C3: every candidate of a fetched source gets exactly one outcome:
\* skipped_nodate when its date is absent or unparseable, skipped_time when
\* its instant is outside the window, otherwise it is forwarded and counted
\* created or updated (or, the store failing, in errors); the counters add up
\* to the candidates; a feed of one in-window, one out-of-window and one
\* unparseable entry on an empty store ends with created=1, updated=0,
\* skipped_time=1, skipped_nodate=1, errors=0 and one record.
C3_Classification ==
    /\ created + updated + skipped_nodate + skipped_time + trace.store_errs = trace.cands
    /\ trace.store_errs = 0 =>
          created + updated + skipped_nodate + skipped_time = trace.cands
    /\ errors = trace.store_errs + trace.fetch_errs
    /\ Len(store) = created
    /\ trace.last.outcome # "none" =>
          /\ trace.last.outcome = "nodate" <=> trace.last.raw \in Undated
          /\ trace.last.raw \notin Undated =>
                (trace.last.outcome = "time"
                    <=> ~(Yesterday0 <= Expected(trace.last.raw)
                            /\ Expected(trace.last.raw) < Today0))
    /\ (/\ pc = "done" /\ Len(env.sources) = 1 /\ trace.cands = 3
        /\ trace.seen_raw = {R_Y10, R_T01, R_Bad}
        /\ trace.store_errs = 0 /\ trace.fetch_errs = 0) =>
          /\ created = 1 /\ updated = 0 /\ skipped_time = 1 /\ skipped_nodate = 1
          /\ errors = 0
          /\ Len(store) = 1
          /\ store[1].PublishedAt =
                IsoFormat(Expected(IF Yesterday0 <= Expected(R_Y10) /\ Expected(R_Y10) < Today0
                                   THEN R_Y10 ELSE R_T01))

C3_Witness ==
    /\ pc = "done" /\ Len(env.sources) = 1 /\ env.sources[1].url = FeedUrl
    /\ trace.cands = 3 /\ trace.seen_raw = {R_Y10, R_T01, R_Bad}
    /\ created = 1 /\ skipped_time = 1 /\ skipped_nodate = 1 /\ errors = 0
    /\ Len(store) = 1 /\ store[1].Agency = "muniA"
    /\ store[1].PublishedAt = IsoFormat(Expected(R_Y10))

\* C4: for a source that is not feed-like the feed adapter is never called;
\* when its page fetch fails nothing of it reaches the store, errors grows by
\* exactly 1, the source is left for the next one, and all that the other
\* sources read and write (store, counters but errors, window) is as it was:
\* the run goes on.
C4_PageFetchFailure ==
    /\ []((Running /\ env.sources[si].url = NonFeedUrl) =>
            /\ trace.src.feed = "none"
            /\ ~trace.src.feed_like
            /\ trace.src.type = "HTML")
    /\ [][trace'.fetch_errs # trace.fetch_errs =>
            /\ pc = "fallback" /\ pc' = "select"
            /\ trace'.fetch_errs = trace.fetch_errs + 1
            /\ errors' = errors + 1
            /\ si' = si + 1
            /\ trace'.cands = trace.cands
            /\ UNCHANGED <<store, created, updated, skipped_time, skipped_nodate,
                           win, env, now>>]_vars
    /\ [][(pc = "fallback" /\ pc' # "items") =>
            (pc' = "select" /\ trace'.fetch_errs = trace.fetch_errs + 1)]_vars

C4_Witness ==
    /\ pc = "done" /\ Len(env.sources) = 2
    /\ env.sources[1].url = NonFeedUrl /\ env.sources[2].url = FeedUrl
    /\ errors = 1 /\ trace.fetch_errs = 1
    /\ created = 1 /\ Len(store) = 1 /\ store[1].Agency = "muniA"

FeedGaveNothing == trace.src.feed \in {"raised", "empty", "linkless"}

\* C5: for a feed-like source the feed adapter is called first; the page
\* adapter is called for that source exactly when the feed fetch failed or
\* gave nothing (a feed whose entries all lack a link included); a failed
\* feed fetch adds nothing to errors, and fetching adds at most 1 to errors
\* for each source.
C5_FeedFirstThenPage ==
    /\ []((Running /\ env.sources[si].url = FeedUrl) =>
            /\ trace.src.feed_like
            /\ pc = "select" => (trace.src.feed = "none" /\ trace.src.page = "none")
            /\ pc = "fallback" => (FeedGaveNothing /\ trace.src.page = "none")
            /\ trace.src.page # "none" => FeedGaveNothing
            /\ trace.src.feed = "items" =>
                  (pc = "items" /\ trace.src.page = "none" /\ trace.src.type = "RSS")
            /\ (pc = "items" /\ FeedGaveNothing) =>
                  (trace.src.page # "none" /\ trace.src.type = "HTML"))
    /\ [](pc = "fallback" => ENABLED (PageFetchOk \/ PageFetchFail))
    /\ [][pc = "select" => errors' = errors]_vars
    /\ [][pc = "fallback" =>
            \/ pc' = "items" /\ trace'.src.page # "none" /\ errors' = errors
            \/ pc' = "select" /\ si' = si + 1 /\ errors' = errors + 1]_vars
    /\ [](pc \in {"select", "fallback", "items", "done"} =>
            /\ trace.fetch_errs = errors - trace.store_errs
            /\ trace.fetch_errs <= si - 1)

C5_Witness ==
    /\ Running /\ env.sources[si].url = FeedUrl
    /\ pc = "items" /\ cur = 0
    /\ trace.src.feed = "linkless" /\ trace.src.page = "items"
    /\ trace.src.type = "HTML" /\ trace.src.links # {}
    /\ errors = 0 /\ created = 1 /\ Len(store) = 1

\* what is left of the run: it shrinks with every step
Remaining ==
    LET K == MaxItems + 4
        left == Len(env.sources) - si + 1
    IN  CASE pc = "start"    -> (Len(env.sources) + 2) * K
          [] pc = "select"   -> left * K + MaxItems + 3
          [] pc = "fallback" -> left * K + MaxItems + 2
          [] pc = "items"    -> left * K + cur + 1
          [] OTHER           -> 0

====
